---- MODULE Spec2Model ----
(***************************************************************************)
(* Model of pkg/cluster (Bootstrap, shouldBootstrapLoad, bootstrapped,     *)
(* testClusterDB, assignManagedDriver) and pkg/clientaccess (parseToken,   *)
(* getCACerts, get, GetHTTPClient, ParseAndValidateTokenForUser).          *)
(*                                                                         *)
(* Go strings are sequences of one-character strings; a []byte is a        *)
(* sequence of small naturals; a Go error is the chain of its messages,    *)
(* outermost first, and the nil error is the empty chain.                  *)
(***************************************************************************)
EXTENDS Integers, Sequences, FiniteSets, TLC

(***************************************************************************)
(* Bounds of the model.                                                    *)
(***************************************************************************)
\* the probe and tick counters of the readiness poller saturate here
MaxProbes == 3

\* how many times the server process is started again
MaxRestarts == 1

\* longest token body, after the five leading strings of the model
MaxTokenLen == 4

\* longest username and password of an Info
MaxFieldLen == 2

(***************************************************************************)
(* strings package                                                         *)
(***************************************************************************)
HasPrefix(s, p) ==
    /\ Len(s) >= Len(p)
    /\ SubSeq(s, 1, Len(p)) = p

\* strings.Index: position (1-based) of the first occurrence of sep, 0 if none
Index(s, sep) ==
    LET hits == {i \in 1..(Len(s) - Len(sep) + 1) : SubSeq(s, i, i + Len(sep) - 1) = sep}
    IN  IF hits = {} THEN 0 ELSE CHOOSE i \in hits : \A j \in hits : i <= j

\* strings.SplitN(s, sep, 2): at most two parts, cut at the first sep
SplitN2(s, sep) ==
    LET i == Index(s, sep)
    IN  IF i = 0 THEN <<s>>
        ELSE <<SubSeq(s, 1, i - 1), SubSeq(s, i + Len(sep), Len(s))>>

(***************************************************************************)
(* Errors.  errors.Wrap(err, msg) puts msg in front of the chain;          *)
(* errors.Is(err, target) looks for the sentinel anywhere in the chain.    *)
(***************************************************************************)
NoErr == <<>>

Errorf(text, args) == <<[text |-> text, args |-> args]>>

ErrServiceUnavailable == Errorf("service unavailable", <<>>)

Wrap(err, text) == Errorf(text, <<>>) \o err

ErrorsIs(err, target) == \E i \in 1..Len(err) : err[i] = target[1]

(***************************************************************************)
(* Join-token codec                                                        *)
(***************************************************************************)
tokenPrefix == <<"K", "1", "0">>

\* fmt.Sprintf(tokenFormat, prefix, hash, username, password)
tokenFormat(prefix, hash, username, password) ==
    prefix \o hash \o <<":", ":">> \o username \o <<":">> \o password

HexDigit(n) ==
    <<"0", "1", "2", "3", "4", "5", "6", "7", "8", "9", "a", "b", "c", "d", "e", "f">>[n + 1]

RECURSIVE Digest(_, _)
Digest(bytes, h) ==
    IF bytes = <<>> THEN h
    ELSE Digest(Tail(bytes), (h * 31 + Head(bytes) + 1) % 256)

\* hashCA: hex encoding of a digest of the bytes (an 8-bit digest stands for SHA-256)
hashCA(cacerts) ==
    LET d == Digest(cacerts, 227)
    IN  <<HexDigit(d \div 16), HexDigit(d % 16)>>

NilInfo == [nil |-> TRUE, CACerts |-> <<>>, BaseURL |-> "", Username |-> <<>>,
            Password |-> <<>>, caHash |-> <<>>]

NewInfo == [NilInfo EXCEPT !.nil = FALSE]

\* parseToken that only puts the prefix in front of a token without one
parseToken_NoPad(token) ==
    LET tagged   == IF ~HasPrefix(token, tokenPrefix)
                    THEN tokenPrefix \o token
                    ELSE token
        stripped == SubSeq(tagged, Len(tokenPrefix) + 1, Len(tagged))
        parts    == SplitN2(stripped, <<":", ":">>)
        caHash   == IF Len(parts) > 1 THEN parts[1] ELSE <<>>
        rest     == IF Len(parts) > 1 THEN parts[2] ELSE parts[1]
        up       == SplitN2(rest, <<":">>)
    IN  IF Len(up) # 2
        THEN [info |-> NilInfo, err |-> Errorf("invalid token format", <<>>)]
        ELSE [info |-> [NewInfo EXCEPT !.caHash = caHash, !.Username = up[1],
                                       !.Password = up[2]],
              err  |-> NoErr]

\* parseToken that cuts the password at its next ":"
parseToken_SplitAll(token) ==
    LET tagged   == IF ~HasPrefix(token, tokenPrefix)
                    THEN tokenFormat(tokenPrefix, <<>>, <<>>, token)
                    ELSE token
        stripped == SubSeq(tagged, Len(tokenPrefix) + 1, Len(tagged))
        parts    == SplitN2(stripped, <<":", ":">>)
        caHash   == IF Len(parts) > 1 THEN parts[1] ELSE <<>>
        rest     == IF Len(parts) > 1 THEN parts[2] ELSE parts[1]
        up       == SplitN2(rest, <<":">>)
    IN  IF Len(up) # 2
        THEN [info |-> NilInfo, err |-> Errorf("invalid token format", <<>>)]
        ELSE [info |-> [NewInfo EXCEPT !.caHash = caHash, !.Username = up[1],
                                       !.Password = SplitN2(up[2], <<":">>)[1]],
              err  |-> NoErr]

\* parseToken parses a token into an Info struct
parseToken(token) ==
    LET tagged   == IF ~HasPrefix(token, tokenPrefix)
                    THEN tokenFormat(tokenPrefix, <<>>, <<>>, token)
                    ELSE token
        stripped == SubSeq(tagged, Len(tokenPrefix) + 1, Len(tagged))
        parts    == SplitN2(stripped, <<":", ":">>)
        caHash   == IF Len(parts) > 1 THEN parts[1] ELSE <<>>
        rest     == IF Len(parts) > 1 THEN parts[2] ELSE parts[1]
        up       == SplitN2(rest, <<":">>)
    IN  IF Len(up) # 2
        THEN [info |-> NilInfo, err |-> Errorf("invalid token format", <<>>)]
        ELSE [info |-> [NewInfo EXCEPT !.caHash = caHash, !.Username = up[1],
                                       !.Password = up[2]],
              err  |-> NoErr]

\* Info.String that writes the caHash field of the Info
InfoString_CaHashField(info) ==
    tokenFormat(tokenPrefix, info.caHash, info.Username, info.Password)

\* Info.String
InfoString(info) ==
    tokenFormat(tokenPrefix, hashCA(info.CACerts), info.Username, info.Password)

(***************************************************************************)
(* net/url and net/http as far as clientaccess uses them                   *)
(***************************************************************************)
\* url.Parse on the join URLs of the model; the last one has a bad escape
url_Parse(raw) ==
    CASE raw = "https://peer/"   -> [err |-> NoErr, Scheme |-> "https", Host |-> "peer", Path |-> <<"/">>]
      [] raw = "https://peer"    -> [err |-> NoErr, Scheme |-> "https", Host |-> "peer", Path |-> <<>>]
      [] raw = "http://peer"     -> [err |-> NoErr, Scheme |-> "http", Host |-> "peer", Path |-> <<>>]
      [] OTHER                   -> [err |-> Errorf("invalid URL escape", << <<raw>> >>),
                                     Scheme |-> "", Host |-> "", Path |-> <<>>]

\* url.URL.String for the parsed URLs above
url_String(u) ==
    CASE u.Scheme = "https" /\ u.Path = <<>> -> "https://peer"
      [] u.Scheme = "https"                  -> "https://peer/"
      [] OTHER                               -> "http://peer"

\* the for loop of setServer: drop every trailing "/" of the path
RECURSIVE TrimSlashes(_)
TrimSlashes(path) ==
    IF path # <<>> /\ path[Len(path)] = "/"
    THEN TrimSlashes(SubSeq(path, 1, Len(path) - 1))
    ELSE path

\* certificates are numbered; 0 is a root of the platform trust store,
\* 1 and 2 are private CAs, any other byte of a bundle is not a certificate
OSRoots == {0}
PrivateCAs == {1, 2}

\* x509.CertPool.AppendCertsFromPEM: the certificates found in the bytes
AppendCertsFromPEM(cacerts) == {cacerts[i] : i \in 1..Len(cacerts)} \cap PrivateCAs

DefaultClient == [kind |-> "default", roots |-> OSRoots]

insecureClient == [kind |-> "insecure", roots |-> {}]

\* GetHTTPClient that forgets the bundle and always gives the default client
GetHTTPClient_Default(cacerts) == DefaultClient

\* GetHTTPClient: the default client for an empty bundle, else a client
\* whose only roots are the certificates of the bundle
GetHTTPClient(cacerts) ==
    IF Len(cacerts) = 0 THEN DefaultClient
    ELSE [kind |-> "pool", roots |-> AppendCertsFromPEM(cacerts)]

\* what the peer answers to one request
Responses == {"200", "503", "404", "ioerr"}

BootstrapData == <<7>>

\* the TLS handshake of client.Do against the peer's serving certificate
Verifies(client, p) == client.kind = "insecure" \/ p.signer \in client.roots

\* get that reports every status but 200 as service unavailable
get_All503(path, client, username, password, p, r) ==
    LET sent   == r # "ioerr" /\ Verifies(client, p)
        status == IF sent THEN r ELSE "ioerr"
        req    == [path |-> path, client |-> client,
                   auth |-> IF username # <<>> THEN <<username, password>> ELSE <<>>,
                   status |-> status]
    IN  IF ~sent
        THEN [body |-> <<>>, err |-> Errorf("client.Do failed", << <<path>> >>), req |-> req]
        ELSE IF r # "200"
        THEN [body |-> <<>>, err |-> ErrServiceUnavailable, req |-> req]
        ELSE [body |-> IF path = "/cacerts" THEN p.cacerts ELSE BootstrapData,
              err |-> NoErr, req |-> req]

\* get makes one request; p is the peer, r its answer.  The request made is
\* returned with the result for the request log.
get(path, client, username, password, p, r) ==
    LET sent   == r # "ioerr" /\ Verifies(client, p)
        status == IF sent THEN r ELSE "ioerr"
        req    == [path |-> path, client |-> client,
                   auth |-> IF username # <<>> THEN <<username, password>> ELSE <<>>,
                   status |-> status]
    IN  IF ~sent
        THEN [body |-> <<>>, err |-> Errorf("client.Do failed", << <<path>> >>), req |-> req]
        ELSE IF r = "503"
        THEN [body |-> <<>>, err |-> ErrServiceUnavailable, req |-> req]
        ELSE IF r # "200"
        THEN [body |-> <<>>, err |-> Errorf("bad status", << <<path>>, <<r>> >>), req |-> req]
        ELSE [body |-> IF path = "/cacerts" THEN p.cacerts ELSE BootstrapData,
              err |-> NoErr, req |-> req]

\* validateCACerts that accepts an empty bundle whatever the hash
validateCACerts_Or(cacerts, hash) ==
    IF Len(cacerts) = 0 \/ hash = <<>> THEN [ok |-> TRUE, hash |-> <<>>]
    ELSE [ok |-> hash = hashCA(cacerts), hash |-> hashCA(cacerts)]

\* validateCACerts: does the bundle match the hash, and the bundle's hash
validateCACerts(cacerts, hash) ==
    IF Len(cacerts) = 0 /\ hash = <<>> THEN [ok |-> TRUE, hash |-> <<>>]
    ELSE [ok |-> hash = hashCA(cacerts), hash |-> hashCA(cacerts)]

\* Info.validateCAHash
validateCAHash(inf) ==
    LET v == validateCACerts(inf.CACerts, inf.caHash)
    IN  IF ~v.ok
        THEN Errorf("token CA hash does not match the server CA hash", <<inf.caHash, v.hash>>)
        ELSE NoErr

(***************************************************************************)
(* State                                                                   *)
(***************************************************************************)
VARIABLES
    config,            \* c.config: Token, JoinURL, Datastore.Endpoint, ClusterInit
    initialized,       \* per registered driver: is its database on disk
    fs,                \* the data directory: does db/ exist, which stamps exist
    peer,              \* the server behind JoinURL, once contacted
    managedDB,         \* c.managedDB
    HTTPBootstrap,     \* c.runtime.HTTPBootstrap
    clientAccessInfo,  \* c.clientAccessInfo
    joining,           \* c.joining
    shouldBootstrap,   \* c.shouldBootstrap
    pc,                \* where Bootstrap stands
    info,              \* the Info being built by ParseAndValidateTokenForUser
    url,               \* the URL setServer parsed from JoinURL
    cacerts,           \* the bytes getCACerts received with the insecure client
    ret,               \* the error Bootstrap returned
    reqs,              \* every request made, in order
    hist,              \* what this call of Bootstrap has done so far
    pollPC,            \* where testClusterDB and its goroutine stand
    result,            \* the channel returned by testClusterDB
    ctxDone,           \* has ctx been cancelled
    probes,            \* calls of Test so far (saturating)
    ticks,             \* expiries of time.After so far (saturating)
    consumer,          \* the one receiver on the result channel
    life,              \* across restarts: how many, and whether an earlier run recorded its bootstrap
    mark,              \* per caller of bootstrapped: where it stands, what it returned
    codec              \* a token string or an Info put through the codec

bootVars == <<managedDB, HTTPBootstrap, clientAccessInfo, joining, shouldBootstrap,
              pc, info, url, cacerts, ret, reqs, hist, peer>>
diskVars == <<config, initialized, fs>>
pollVars == <<pollPC, result, ctxDone, probes, ticks, consumer>>
auxVars == <<life, mark, codec>>
vars == <<config, initialized, fs, peer, managedDB, HTTPBootstrap, clientAccessInfo,
          joining, shouldBootstrap, pc, info, url, cacerts, ret, reqs, hist,
          pollPC, result, ctxDone, probes, ticks, consumer, life, mark, codec>>

(***************************************************************************)
(* Managed drivers.  A driver is known by its EndpointName; endpoint       *)
(* strings are sequences of pieces in which ":" is a piece of its own.     *)
(***************************************************************************)
NoDriver == <<>>

\* managed.Registered()
Registered == << <<"dqlite">>, <<"etcd">> >>

\* managed.Default()
Default == <<"etcd">>

DriverSet == {Registered[i] : i \in 1..Len(Registered)}

\* the first loop of assignManagedDriver; failing is the set of drivers
\* whose IsInitialized returns an error
RECURSIVE firstInitialized(_, _)
firstInitialized(drivers, failing) ==
    IF drivers = <<>> THEN [db |-> NoDriver, err |-> NoErr]
    ELSE IF Head(drivers) \in failing
    THEN [db |-> NoDriver, err |-> Errorf("IsInitialized failed", <<Head(drivers)>>)]
    ELSE IF initialized[Head(drivers)] THEN [db |-> Head(drivers), err |-> NoErr]
    ELSE firstInitialized(Tail(drivers), failing)

\* a loop over Registered() that takes the first driver named name
RECURSIVE firstNamed(_, _)
firstNamed(drivers, name) ==
    IF drivers = <<>> THEN NoDriver
    ELSE IF Head(drivers) = name THEN Head(drivers)
    ELSE firstNamed(Tail(drivers), name)

\* assignManagedDriver that looks at the endpoint before the disk
assignManagedDriver_EndpointFirst(failing) ==
    LET onDisk       == firstInitialized(Registered, failing)
        endpointType == SplitN2(config.Endpoint, <<":">>)[1]
        byEndpoint   == firstNamed(Registered, endpointType)
    IN  IF byEndpoint # NoDriver THEN [db |-> byEndpoint, err |-> NoErr]
        ELSE IF onDisk.err # NoErr \/ onDisk.db # NoDriver THEN onDisk
        ELSE IF /\ config.Endpoint = <<>>
                /\ (config.ClusterInit \/ (config.Token # <<>> /\ config.JoinURL # ""))
        THEN [db |-> firstNamed(Registered, Default), err |-> NoErr]
        ELSE [db |-> NoDriver, err |-> NoErr]

\* assignManagedDriver: the driver assigned to c.managedDB and the error returned
assignManagedDriver(failing) ==
    LET onDisk       == firstInitialized(Registered, failing)
        endpointType == SplitN2(config.Endpoint, <<":">>)[1]
        byEndpoint   == firstNamed(Registered, endpointType)
    IN  IF onDisk.err # NoErr \/ onDisk.db # NoDriver THEN onDisk
        ELSE IF byEndpoint # NoDriver THEN [db |-> byEndpoint, err |-> NoErr]
        ELSE IF /\ config.Endpoint = <<>>
                /\ (config.ClusterInit \/ (config.Token # <<>> /\ config.JoinURL # ""))
        THEN [db |-> firstNamed(Registered, Default), err |-> NoErr]
        ELSE [db |-> NoDriver, err |-> NoErr]

(***************************************************************************)
(* The stamp                                                               *)
(***************************************************************************)
CharCode(ch) ==
    CASE ch = ":" -> 1 [] ch = "K" -> 2 [] ch = "u" -> 3 [] ch = "p" -> 4
      [] ch = "s" -> 5 [] ch = "n" -> 6 [] ch = "g" -> 7 [] ch = "h" -> 8
      [] ch = "0" -> 10 [] ch = "1" -> 11 [] ch = "2" -> 12 [] ch = "3" -> 13
      [] ch = "4" -> 14 [] ch = "5" -> 15 [] ch = "6" -> 16 [] ch = "7" -> 17
      [] ch = "8" -> 18 [] ch = "9" -> 19 [] ch = "a" -> 20 [] ch = "b" -> 21
      [] ch = "c" -> 22 [] ch = "d" -> 23 [] ch = "e" -> 24 [] ch = "f" -> 25
      [] OTHER -> 26

\* keyHash: a 16-bit fingerprint of the string stands for the truncated SHA-256
RECURSIVE keyHashFrom(_, _)
keyHashFrom(str, h) ==
    IF str = <<>> THEN h
    ELSE keyHashFrom(Tail(str), (h * 33 + CharCode(Head(str))) % 65536)

keyHash(passphrase) == keyHashFrom(passphrase, 5381)

\* a stamp named after the password the token decodes to
bootstrapStamp_Normalized == keyHash(parseToken(config.Token).info.Password)

\* bootstrapStamp: DataDir/db/joined-<keyHash of the token as configured>
bootstrapStamp == keyHash(config.Token)

\* os.Stat(stamp) returns no error
StatOK(stamp) == stamp \in fs.stamps

(***************************************************************************)
(* Bootstrap.  The call is cut where it blocks on the network: before each *)
(* request to the peer and before the storage load.  The operators below   *)
(* take the in-memory state as a record and give it back changed.          *)
(***************************************************************************)
Frame == [managedDB |-> managedDB, HTTPBootstrap |-> HTTPBootstrap,
          clientAccessInfo |-> clientAccessInfo, joining |-> joining,
          shouldBootstrap |-> shouldBootstrap, pc |-> pc, info |-> info, url |-> url,
          cacerts |-> cacerts, ret |-> ret, reqs |-> reqs, hist |-> hist, peer |-> peer]

Set(s) ==
    /\ managedDB' = s.managedDB
    /\ HTTPBootstrap' = s.HTTPBootstrap
    /\ clientAccessInfo' = s.clientAccessInfo
    /\ joining' = s.joining
    /\ shouldBootstrap' = s.shouldBootstrap
    /\ pc' = s.pc
    /\ info' = s.info
    /\ url' = s.url
    /\ cacerts' = s.cacerts
    /\ ret' = s.ret
    /\ reqs' = s.reqs
    /\ hist' = s.hist
    /\ peer' = s.peer

NoURL == [err |-> NoErr, Scheme |-> "", Host |-> "", Path |-> <<>>]

NoPeer == [signer |-> 0, cacerts |-> <<>>, known |-> FALSE]

NoHist == [stats |-> 0, isInit |-> "none", parsed |-> FALSE, verr |-> NoErr,
           validated |-> FALSE, fetches |-> 0, loads |-> 0]

\* Bootstrap returns err to its caller
Return(s, err) == [s EXCEPT !.pc = "returned", !.ret = err]

\* bootstrap that takes the HTTP path whatever c.runtime.HTTPBootstrap says
bootstrap_AlwaysHTTP(s) ==
    [s EXCEPT !.shouldBootstrap = TRUE, !.joining = TRUE, !.pc = "fetch"]

\* Bootstrap after shouldBootstrapLoad returned (true, nil): c.shouldBootstrap is
\* set and bootstrap() runs up to the request or the storage load it blocks on
bootstrap(s) ==
    [s EXCEPT !.shouldBootstrap = TRUE, !.joining = TRUE,
              !.pc = IF s.HTTPBootstrap THEN "fetch" ELSE "storage"]

\* stampCheck that does not look at the stamp
stampCheck_NoStat(s) ==
    IF s.managedDB # NoDriver /\ config.Token = <<>>
    THEN Return(s, Errorf("K3S_TOKEN is required to join a cluster", <<>>))
    ELSE bootstrap(s)

\* shouldBootstrapLoad from the stamp check on
stampCheck(s) ==
    LET t == [s EXCEPT !.hist.stats = @ + 1]
    IN  IF StatOK(bootstrapStamp)
        THEN Return([t EXCEPT !.shouldBootstrap = FALSE], NoErr)
        ELSE IF t.managedDB # NoDriver /\ config.Token = <<>>
        THEN Return(t, Errorf("K3S_TOKEN is required to join a cluster", <<>>))
        ELSE bootstrap(t)

\* validationFailed whose bypass goes on to the stamp check instead of returning
validationFailed_Continue(s, err, isInitErr) ==
    LET t == [s EXCEPT !.hist.verr = err]
    IN  IF ErrorsIs(err, ErrServiceUnavailable)
        THEN IF isInitErr
             THEN Return([t EXCEPT !.hist.isInit = "err"], err)
             ELSE IF initialized[t.managedDB]
             THEN stampCheck([t EXCEPT !.hist.isInit = "true"])
             ELSE Return([t EXCEPT !.hist.isInit = "false"], err)
        ELSE Return(t, err)

\* validationFailed that bypasses without asking the driver's answer
validationFailed_NoInitCheck(s, err, isInitErr) ==
    LET t == [s EXCEPT !.hist.verr = err]
    IN  IF ErrorsIs(err, ErrServiceUnavailable)
        THEN IF isInitErr
             THEN Return([t EXCEPT !.hist.isInit = "err"], err)
             ELSE IF initialized[t.managedDB]
             THEN Return([t EXCEPT !.hist.isInit = "true", !.shouldBootstrap = FALSE], NoErr)
             ELSE Return([t EXCEPT !.hist.isInit = "false", !.shouldBootstrap = FALSE], NoErr)
        ELSE Return(t, err)

\* shouldBootstrapLoad when ParseAndValidateTokenForUser returned err;
\* isInitErr: the IsInitialized call, if made, returns an error
validationFailed(s, err, isInitErr) ==
    LET t == [s EXCEPT !.hist.verr = err]
    IN  IF ErrorsIs(err, ErrServiceUnavailable)
        THEN IF isInitErr
             THEN Return([t EXCEPT !.hist.isInit = "err"], err)
             ELSE IF initialized[t.managedDB]
             THEN Return([t EXCEPT !.hist.isInit = "true", !.shouldBootstrap = FALSE], NoErr)
             ELSE Return([t EXCEPT !.hist.isInit = "false"], err)
        ELSE Return(t, err)

\* certsObtained that does not store the Info in c.clientAccessInfo
certsObtained_NoAssign(s, bundle, isInitErr) ==
    LET inf  == [s.info EXCEPT !.BaseURL = url_String(s.url), !.CACerts = bundle]
        herr == IF inf.caHash # <<>> THEN validateCAHash(inf) ELSE NoErr
    IN  IF herr # NoErr
        THEN validationFailed([s EXCEPT !.info = inf], herr, isInitErr)
        ELSE stampCheck([s EXCEPT !.info = inf, !.hist.validated = TRUE])

\* setServer after getCACerts returned the bundle, then the hash check of
\* ParseAndValidateTokenForUser, then shouldBootstrapLoad with the Info
certsObtained(s, bundle, isInitErr) ==
    LET inf  == [s.info EXCEPT !.BaseURL = url_String(s.url), !.CACerts = bundle]
        herr == IF inf.caHash # <<>> THEN validateCAHash(inf) ELSE NoErr
    IN  IF herr # NoErr
        THEN validationFailed([s EXCEPT !.info = inf], herr, isInitErr)
        ELSE stampCheck([s EXCEPT !.info = inf, !.clientAccessInfo = inf,
                                  !.hist.validated = TRUE])

\* setServer up to the call of getCACerts
setServer(s, server, isInitErr) ==
    LET u == url_Parse(server)
    IN  IF u.err # NoErr
        THEN validationFailed(s, Wrap(u.err, "Invalid server url, failed to parse"), isInitErr)
        ELSE IF u.Scheme # "https"
        THEN validationFailed(s, Errorf("only https:// URLs are supported", << <<server>> >>), isInitErr)
        ELSE [s EXCEPT !.url = [u EXCEPT !.Path = TrimSlashes(u.Path)], !.pc = "phase1"]

\* ParseAndValidateTokenForUser that keeps the username of the token
ParseAndValidateTokenForUser_KeepUser(s, server, token, username, isInitErr) ==
    LET p == parseToken(token)
        t == [s EXCEPT !.hist.parsed = TRUE]
    IN  IF p.err # NoErr THEN validationFailed(t, p.err, isInitErr)
        ELSE setServer([t EXCEPT !.info = p.info], server, isInitErr)

\* ParseAndValidateTokenForUser up to the call of getCACerts
ParseAndValidateTokenForUser(s, server, token, username, isInitErr) ==
    LET p == parseToken(token)
        t == [s EXCEPT !.hist.parsed = TRUE]
    IN  IF p.err # NoErr THEN validationFailed(t, p.err, isInitErr)
        ELSE setServer([t EXCEPT !.info = [p.info EXCEPT !.Username = username]],
                       server, isInitErr)

\* shouldBootstrapLoad that checks the stamp when there is no URL to join
shouldBootstrapLoad_FounderStat(s, isInitErr) ==
    IF s.managedDB # NoDriver
    THEN LET t == [s EXCEPT !.HTTPBootstrap = TRUE]
         IN  IF config.JoinURL = ""
             THEN stampCheck(t)
             ELSE ParseAndValidateTokenForUser(t, config.JoinURL, config.Token,
                                               <<"s", "e", "r", "v", "e", "r">>, isInitErr)
    ELSE stampCheck(s)

\* shouldBootstrapLoad from its first line
shouldBootstrapLoad(s, isInitErr) ==
    IF s.managedDB # NoDriver
    THEN LET t == [s EXCEPT !.HTTPBootstrap = TRUE]
         IN  IF config.JoinURL = ""
             THEN Return([t EXCEPT !.shouldBootstrap = FALSE], NoErr)
             ELSE ParseAndValidateTokenForUser(t, config.JoinURL, config.Token,
                                               <<"s", "e", "r", "v", "e", "r">>, isInitErr)
    ELSE stampCheck(s)

\* Bootstrap from its first line
Bootstrap(s, failing, isInitErr) ==
    LET a == assignManagedDriver(failing)
    IN  IF a.err # NoErr THEN Return(s, a.err)
        ELSE shouldBootstrapLoad([s EXCEPT !.managedDB = a.db], isInitErr)

\* getCACerts: the request with the default client
getCACerts1(s, p, r, isInitErr) ==
    LET g == get("/cacerts", DefaultClient, <<>>, <<>>, p, r)
        t == [s EXCEPT !.reqs = Append(@, g.req), !.peer = p]
    IN  IF g.err = NoErr THEN certsObtained(t, <<>>, isInitErr)
        ELSE [t EXCEPT !.pc = "phase2"]

\* getCACerts that goes on to the third request whatever the second returned
getCACerts2_NoCheck(s, r, isInitErr) ==
    LET g == get("/cacerts", insecureClient, <<>>, <<>>, s.peer, r)
        t == [s EXCEPT !.reqs = Append(@, g.req)]
    IN  [t EXCEPT !.cacerts = g.body, !.pc = "phase3"]

\* getCACerts: the request with the client that does not validate
getCACerts2(s, r, isInitErr) ==
    LET g == get("/cacerts", insecureClient, <<>>, <<>>, s.peer, r)
        t == [s EXCEPT !.reqs = Append(@, g.req)]
    IN  IF g.err # NoErr
        THEN validationFailed(t, Wrap(g.err, "failed to get CA certs"), isInitErr)
        ELSE [t EXCEPT !.cacerts = g.body, !.pc = "phase3"]

\* getCACerts: the request with the client made from the bundle
getCACerts3(s, r, isInitErr) ==
    LET g == get("/cacerts", GetHTTPClient(s.cacerts), <<>>, <<>>, s.peer, r)
        t == [s EXCEPT !.reqs = Append(@, g.req)]
    IN  IF g.err # NoErr
        THEN validationFailed(t, Wrap(g.err, "CA cert validation failed"), isInitErr)
        ELSE certsObtained(t, s.cacerts, isInitErr)

\* httpBootstrap; readOK: bootstrap.Read decodes the content
httpBootstrap(s, r, readOK) ==
    LET ai == s.clientAccessInfo
        g  == get("/v1-k3s/server-bootstrap", GetHTTPClient(ai.CACerts),
                  ai.Username, ai.Password, s.peer, r)
        t  == [s EXCEPT !.reqs = Append(@, g.req), !.hist.fetches = @ + 1]
    IN  IF ai.nil THEN Return(s, Errorf("nil pointer dereference", <<>>))
        ELSE IF g.err # NoErr THEN Return(t, g.err)
        ELSE IF ~readOK THEN Return(t, Errorf("bootstrap.Read failed", <<>>))
        ELSE Return(t, NoErr)

\* storageBootstrap, the collaborator that loads from the datastore
storageBootstrap(s, ok) ==
    LET t == [s EXCEPT !.hist.loads = @ + 1]
    IN  IF ok THEN Return(t, NoErr) ELSE Return(t, Errorf("storageBootstrap failed", <<>>))

\* os.MkdirAll(filepath.Dir(stamp), 0700): nothing to do for a directory that
\* exists; ioOK: the operating system lets the directory be made
mkdirAll(f, ioOK) ==
    IF f.dbDir THEN [fs |-> f, err |-> NoErr]
    ELSE IF ioOK THEN [fs |-> [f EXCEPT !.dbDir = TRUE], err |-> NoErr]
    ELSE [fs |-> f, err |-> Errorf("mkdir failed", <<>>)]

\* an os.Create that refuses a file that exists
createStamp_Excl(f, ioOK) ==
    IF bootstrapStamp \in f.stamps THEN [fs |-> f, err |-> Errorf("file exists", <<>>)]
    ELSE IF ioOK
    THEN [fs |-> [f EXCEPT !.stamps = @ \cup {bootstrapStamp}], err |-> NoErr]
    ELSE [fs |-> f, err |-> Errorf("create failed", <<>>)]

\* os.Create(stamp) and f.Close(): the file is made, or truncated when it is
\* there already; ioOK: the operating system lets the file be opened and closed
createStamp(f, ioOK) ==
    IF ioOK
    THEN [fs |-> [f EXCEPT !.stamps = @ \cup {bootstrapStamp}], err |-> NoErr]
    ELSE [fs |-> f, err |-> Errorf("create failed", <<>>)]

\* a bootstrapped that returns nil without creating the stamp
bootstrapped_NoCreate(f, mkdirOK, createOK) ==
    LET d == mkdirAll(f, mkdirOK)
    IN  IF d.err # NoErr THEN d ELSE [fs |-> d.fs, err |-> NoErr]

\* bootstrapped: MkdirAll, Stat, Create
bootstrapped(f, mkdirOK, createOK) ==
    LET d == mkdirAll(f, mkdirOK)
    IN  IF d.err # NoErr THEN d
        ELSE IF StatOK(bootstrapStamp) THEN [fs |-> d.fs, err |-> NoErr]
        ELSE createStamp(d.fs, createOK)

(***************************************************************************)
(* Inputs of the model                                                     *)
(***************************************************************************)
ServerUser == <<"s", "e", "r", "v", "e", "r">>

\* tokens an operator may configure: none, a bare secret, tagged without and
\* with a CA hash (of the bundle <<1>> and of the empty bundle), and a tagged
\* token without the user/password separator
Tokens ==
    { <<>>,
      <<"s">>,
      <<"K", "1", "0", ":", ":", "u", ":", "p">>,
      tokenPrefix \o hashCA(<<1>>) \o <<":", ":", "u", ":", "p">>,
      tokenPrefix \o hashCA(<<>>) \o <<":", ":", "u", ":", "p">>,
      <<"K", "1", "0", ":", ":", "n">> }

\* a token of an earlier configuration of this node
PriorToken == <<"g">>

JoinURLs == {"", "https://peer/", "http://peer", "https://peer/%zz"}

Endpoints == { <<>>, <<"etcd">>, <<"dqlite", ":", "//db">>, <<"mysql", ":", "//db">> }

Bundles == { <<>>, <<1>>, <<2>> }

Peers == [signer : {0, 1}, cacerts : Bundles, known : {TRUE}]

Configs == [Token : Tokens, JoinURL : JoinURLs, Endpoint : Endpoints, ClusterInit : BOOLEAN]

Disks(cfg) ==
    {f \in [dbDir : BOOLEAN, stamps : SUBSET {keyHash(cfg.Token), keyHash(PriorToken)}] :
        f.stamps # {} => f.dbDir}

(***************************************************************************)
(* Specification of Bootstrap and bootstrapped                             *)
(***************************************************************************)
\* the callers of bootstrapped
Callers == {1, 2}

NoMark == [pc |-> "idle", via |-> "idle", err |-> NoErr, ioFailed |-> FALSE,
           after |-> FALSE, fs0 |-> [dbDir |-> FALSE, stamps |-> {}]]

NoCodec == [pc |-> "none", raw |-> <<>>, info |-> NilInfo, encoded |-> <<>>,
            out |-> [info |-> NilInfo, err |-> NoErr]]

AuxIdle ==
    /\ life = [restarts |-> 0, recorded |-> FALSE]
    /\ mark = [p \in Callers |-> NoMark]
    /\ codec = NoCodec

PollIdle ==
    /\ pollPC = "idle"
    /\ result = [closed |-> FALSE, closes |-> 0]
    /\ ctxDone = FALSE
    /\ probes = [calls |-> 0, ok |-> 0]
    /\ ticks = 0
    /\ consumer = "waiting"

Init ==
    /\ config \in Configs
    /\ initialized \in [DriverSet -> BOOLEAN]
    /\ fs \in Disks(config)
    /\ peer = NoPeer
    /\ managedDB = NoDriver
    /\ HTTPBootstrap = FALSE
    /\ clientAccessInfo = NilInfo
    /\ joining = FALSE
    /\ shouldBootstrap = FALSE
    /\ pc = "start"
    /\ info = NilInfo
    /\ url = NoURL
    /\ cacerts = <<>>
    /\ ret = NoErr
    /\ reqs = <<>>
    /\ hist = NoHist
    /\ PollIdle
    /\ AuxIdle

\* Bootstrap is called and runs until it returns or blocks on the network
BootstrapCall ==
    /\ pc = "start"
    /\ \E failing \in SUBSET DriverSet, isInitErr \in BOOLEAN :
          Set(Bootstrap(Frame, failing, isInitErr))
    /\ UNCHANGED <<diskVars, pollVars, auxVars>>

\* the peer answers the first /cacerts request
Phase1 ==
    /\ pc = "phase1"
    /\ \E p \in Peers, r \in Responses, isInitErr \in BOOLEAN :
          Set(getCACerts1(Frame, p, r, isInitErr))
    /\ UNCHANGED <<diskVars, pollVars, auxVars>>

\* the peer answers the second /cacerts request
Phase2 ==
    /\ pc = "phase2"
    /\ \E r \in Responses, isInitErr \in BOOLEAN : Set(getCACerts2(Frame, r, isInitErr))
    /\ UNCHANGED <<diskVars, pollVars, auxVars>>

\* the peer answers the third /cacerts request
Phase3 ==
    /\ pc = "phase3"
    /\ \E r \in Responses, isInitErr \in BOOLEAN : Set(getCACerts3(Frame, r, isInitErr))
    /\ UNCHANGED <<diskVars, pollVars, auxVars>>

\* the peer answers the bootstrap-data request
HTTPFetch ==
    /\ pc = "fetch"
    /\ \E r \in Responses, readOK \in BOOLEAN : Set(httpBootstrap(Frame, r, readOK))
    /\ UNCHANGED <<diskVars, pollVars, auxVars>>

\* the datastore answers the storage load
StorageLoad ==
    /\ pc = "storage"
    /\ \E ok \in BOOLEAN : Set(storageBootstrap(Frame, ok))
    /\ UNCHANGED <<diskVars, pollVars, auxVars>>

\* the caller of Bootstrap records the bootstrap when c.shouldBootstrap is set
MarkBootstrapped ==
    /\ pc = "returned"
    /\ ret = NoErr
    /\ shouldBootstrap
    /\ \E mkdirOK \in BOOLEAN, createOK \in BOOLEAN :
          LET b == bootstrapped(fs, mkdirOK, createOK)
          IN  /\ fs' = b.fs
              /\ pc' = "marked"
              /\ ret' = b.err
    /\ UNCHANGED <<config, initialized, peer, managedDB, HTTPBootstrap, clientAccessInfo,
                   joining, shouldBootstrap, info, url, cacerts, reqs, hist, pollVars,
                   auxVars>>

Next ==
    \/ BootstrapCall
    \/ Phase1
    \/ Phase2
    \/ Phase3
    \/ HTTPFetch
    \/ StorageLoad
    \/ MarkBootstrapped

Spec == Init /\ [][Next]_vars

(***************************************************************************)
(* testClusterDB: the readiness poller, its timer, its context and the one *)
(* receiver on the channel it returns                                      *)
(***************************************************************************)
Bump(n) == IF n < MaxProbes THEN n + 1 ELSE n

\* close(result); closing a closed channel is counted
close(ch) == [closed |-> TRUE, closes |-> Bump(ch.closes)]

\* testClusterDB is called: without a driver the channel is closed at once,
\* with one the goroutine is started and the open channel returned
testClusterDB ==
    /\ pollPC = "idle"
    /\ IF managedDB = NoDriver
       THEN /\ result' = close(result)
            /\ pollPC' = "done"
       ELSE /\ pollPC' = "test"
            /\ UNCHANGED result
    /\ UNCHANGED <<ctxDone, probes, ticks, consumer, diskVars, bootVars, auxVars>>

\* TestReturns whose success closes the channel but stays in the loop
TestReturns_NoReturn ==
    /\ pollPC = "test"
    /\ \E ok \in BOOLEAN :
          IF ok
          THEN /\ probes' = [calls |-> Bump(probes.calls), ok |-> Bump(probes.ok)]
               /\ result' = close(result)
               /\ pollPC' = "select"
          ELSE /\ probes' = [probes EXCEPT !.calls = Bump(@)]
               /\ pollPC' = "select"
               /\ UNCHANGED result
    /\ UNCHANGED <<ctxDone, ticks, consumer, diskVars, bootVars, auxVars>>

\* c.managedDB.Test returns: on success the goroutine returns and the deferred
\* close runs, on failure it goes to the select
TestReturns ==
    /\ pollPC = "test"
    /\ \E ok \in BOOLEAN :
          IF ok
          THEN /\ probes' = [calls |-> Bump(probes.calls), ok |-> Bump(probes.ok)]
               /\ result' = close(result)
               /\ pollPC' = "done"
          ELSE /\ probes' = [probes EXCEPT !.calls = Bump(@)]
               /\ pollPC' = "select"
               /\ UNCHANGED result
    /\ UNCHANGED <<ctxDone, ticks, consumer, diskVars, bootVars, auxVars>>

\* a select whose timer case returns from the goroutine
TimerFires_GiveUp ==
    /\ pollPC = "select"
    /\ ticks' = Bump(ticks)
    /\ result' = close(result)
    /\ pollPC' = "done"
    /\ UNCHANGED <<ctxDone, probes, consumer, diskVars, bootVars, auxVars>>

\* select: case <-time.After(5 * time.Second)
TimerFires ==
    /\ pollPC = "select"
    /\ ticks' = Bump(ticks)
    /\ pollPC' = "test"
    /\ UNCHANGED <<result, ctxDone, probes, consumer, diskVars, bootVars, auxVars>>

\* select: case <-ctx.Done(), the goroutine returns and the deferred close runs
CtxDoneCase ==
    /\ pollPC = "select"
    /\ ctxDone
    /\ result' = close(result)
    /\ pollPC' = "done"
    /\ UNCHANGED <<ctxDone, probes, ticks, consumer, diskVars, bootVars, auxVars>>

\* the surrounding context is cancelled
Cancel ==
    /\ ~ctxDone
    /\ ctxDone' = TRUE
    /\ UNCHANGED <<pollPC, result, probes, ticks, consumer, diskVars, bootVars, auxVars>>

\* the receiver's <-ready returns
Consume ==
    /\ consumer = "waiting"
    /\ result.closed
    /\ consumer' = "ready"
    /\ UNCHANGED <<pollPC, result, ctxDone, probes, ticks, diskVars, bootVars, auxVars>>

\* the cluster after Bootstrap returned without error
PollInit ==
    /\ config \in {cfg \in Configs : cfg.Token = <<"s">> /\ cfg.JoinURL = "https://peer/"}
    /\ initialized \in [DriverSet -> BOOLEAN]
    /\ fs = [dbDir |-> FALSE, stamps |-> {}]
    /\ peer = NoPeer
    /\ managedDB \in {assignManagedDriver({}).db}
    /\ HTTPBootstrap = (managedDB # NoDriver)
    /\ clientAccessInfo = NilInfo
    /\ joining = FALSE
    /\ shouldBootstrap = FALSE
    /\ pc = "returned"
    /\ info = NilInfo
    /\ url = NoURL
    /\ cacerts = <<>>
    /\ ret = NoErr
    /\ reqs = <<>>
    /\ hist = NoHist
    /\ PollIdle
    /\ AuxIdle

PollNext ==
    \/ testClusterDB
    \/ TestReturns
    \/ TimerFires
    \/ CtxDoneCase
    \/ Cancel
    \/ Consume

PollSpec == PollInit /\ [][PollNext]_vars

\* the Go runtime delivers an expired timer to a goroutine waiting in select
PollLiveSpec == PollSpec /\ WF_vars(TimerFires)

(***************************************************************************)
(* The server process run again on the same configuration and disk         *)
(***************************************************************************)
\* the process ends and is started again: the Cluster is constructed anew,
\* the configuration and the data directory stay
Restart ==
    /\ pc \in {"returned", "marked"}
    /\ life.restarts < MaxRestarts
    /\ life' = [restarts |-> life.restarts + 1,
                recorded |-> life.recorded \/ (pc = "marked" /\ ret = NoErr)]
    /\ peer' = NoPeer
    /\ managedDB' = NoDriver
    /\ HTTPBootstrap' = FALSE
    /\ clientAccessInfo' = NilInfo
    /\ joining' = FALSE
    /\ shouldBootstrap' = FALSE
    /\ pc' = "start"
    /\ info' = NilInfo
    /\ url' = NoURL
    /\ cacerts' = <<>>
    /\ ret' = NoErr
    /\ reqs' = <<>>
    /\ hist' = NoHist
    /\ UNCHANGED <<diskVars, pollVars, mark, codec>>

RestartNext ==
    \/ BootstrapCall
    \/ Phase1
    \/ Phase2
    \/ Phase3
    \/ HTTPFetch
    \/ StorageLoad
    \/ MarkBootstrapped
    \/ Restart

RestartSpec == Init /\ [][RestartNext]_vars

(***************************************************************************)
(* bootstrapped, one file-system call at a time, by two callers            *)
(***************************************************************************)
markRest == <<config, initialized, bootVars, pollVars, life, codec>>

\* a call of bootstrapped returns err
MarkReturn(p, from, err, failed) ==
    mark' = [mark EXCEPT ![p].pc = "done", ![p].via = from, ![p].err = err,
                         ![p].ioFailed = failed]

\* the call begins: MkdirAll looks at the directory first
MarkBegin ==
    \E p \in Callers :
        /\ mark[p].pc = "idle"
        /\ mark' = [mark EXCEPT
              ![p].pc = IF fs.dbDir THEN "stat" ELSE "mkdir",
              ![p].fs0 = fs,
              ![p].after = \E q \in Callers \ {p} :
                              mark[q].pc = "done" /\ mark[q].err = NoErr]
        /\ UNCHANGED <<fs, markRest>>

\* MkdirAll makes the directory it did not find; one that appeared since is
\* not an error
MarkMkdir ==
    \E p \in Callers, ioOK \in BOOLEAN :
        /\ mark[p].pc = "mkdir"
        /\ LET d == mkdirAll(fs, ioOK)
           IN  /\ fs' = d.fs
               /\ IF d.err # NoErr THEN MarkReturn(p, "mkdir", d.err, ~ioOK)
                  ELSE mark' = [mark EXCEPT ![p].pc = "stat"]
        /\ UNCHANGED markRest

\* a Stat whose result is ignored
MarkStat_NoReturn ==
    \E p \in Callers :
        /\ mark[p].pc = "stat"
        /\ mark' = [mark EXCEPT ![p].pc = "create"]
        /\ UNCHANGED <<fs, markRest>>

\* os.Stat(stamp): a stamp that is there ends the call
MarkStat ==
    \E p \in Callers :
        /\ mark[p].pc = "stat"
        /\ IF StatOK(bootstrapStamp) THEN MarkReturn(p, "stat", NoErr, FALSE)
           ELSE mark' = [mark EXCEPT ![p].pc = "create"]
        /\ UNCHANGED <<fs, markRest>>

\* os.Create(stamp), then Close
MarkCreate ==
    \E p \in Callers, ioOK \in BOOLEAN :
        /\ mark[p].pc = "create"
        /\ LET c == createStamp(fs, ioOK)
           IN  /\ fs' = c.fs
               /\ MarkReturn(p, "create", c.err, ~ioOK)
        /\ UNCHANGED markRest

MarkInit ==
    /\ config \in {cfg \in Configs : /\ cfg.JoinURL = "https://peer/"
                                     /\ cfg.Endpoint = <<>>
                                     /\ cfg.ClusterInit}
    /\ initialized = [d \in DriverSet |-> FALSE]
    /\ fs \in Disks(config)
    /\ peer = NoPeer
    /\ managedDB = Default
    /\ HTTPBootstrap = TRUE
    /\ clientAccessInfo = NilInfo
    /\ joining = TRUE
    /\ shouldBootstrap = TRUE
    /\ pc = "returned"
    /\ info = NilInfo
    /\ url = NoURL
    /\ cacerts = <<>>
    /\ ret = NoErr
    /\ reqs = <<>>
    /\ hist = NoHist
    /\ PollIdle
    /\ AuxIdle

MarkNext ==
    \/ MarkBegin
    \/ MarkMkdir
    \/ MarkStat
    \/ MarkCreate

MarkSpec == MarkInit /\ [][MarkNext]_vars

(***************************************************************************)
(* The token codec on strings and Infos of bounded length                  *)
(***************************************************************************)
SeqsUpTo(S, n) == UNION {[1..k -> S] : k \in 0..n}

\* token strings: a prefix that is, is not quite, or is not the tag, then a body
TokenStrings ==
    {p \o b : p \in {<<>>, <<"K">>, <<"K", "1">>, <<"K", "1", "0">>, <<"k", "1", "0">>},
              b \in SeqsUpTo({":", "a", "b"}, MaxTokenLen)}

\* Infos: fields as parseToken and getCACerts can leave them, and as a caller
\* of the package can fill them
Infos ==
    {[NewInfo EXCEPT !.CACerts = c, !.Username = u, !.Password = w, !.caHash = h] :
        c \in {<<>>, <<1>>, <<1, 2>>},
        u \in SeqsUpTo({":", "a"}, MaxFieldLen),
        w \in SeqsUpTo({":", "a"}, MaxFieldLen),
        h \in {<<>>, hashCA(<<>>), hashCA(<<1>>), hashCA(<<1, 2>>)}}

codecRest == <<diskVars, bootVars, pollVars, life, mark>>

\* parseToken(raw)
Decode ==
    /\ codec.pc = "token"
    /\ codec' = [codec EXCEPT !.pc = "decoded", !.out = parseToken(codec.raw)]
    /\ UNCHANGED codecRest

\* info.String(), the string then handed to parseToken
Encode ==
    /\ codec.pc = "info"
    /\ codec' = [codec EXCEPT !.pc = "token", !.encoded = InfoString(codec.info),
                              !.raw = InfoString(codec.info)]
    /\ UNCHANGED codecRest

CodecInit ==
    /\ config = [Token |-> <<>>, JoinURL |-> "", Endpoint |-> <<>>, ClusterInit |-> FALSE]
    /\ initialized = [d \in DriverSet |-> FALSE]
    /\ fs = [dbDir |-> FALSE, stamps |-> {}]
    /\ peer = NoPeer
    /\ managedDB = NoDriver
    /\ HTTPBootstrap = FALSE
    /\ clientAccessInfo = NilInfo
    /\ joining = FALSE
    /\ shouldBootstrap = FALSE
    /\ pc = "start"
    /\ info = NilInfo
    /\ url = NoURL
    /\ cacerts = <<>>
    /\ ret = NoErr
    /\ reqs = <<>>
    /\ hist = NoHist
    /\ PollIdle
    /\ life = [restarts |-> 0, recorded |-> FALSE]
    /\ mark = [p \in Callers |-> NoMark]
    /\ codec \in {[NoCodec EXCEPT !.pc = "token", !.raw = t] : t \in TokenStrings}
                 \cup {[NoCodec EXCEPT !.pc = "info", !.info = i] : i \in Infos}

CodecNext ==
    \/ Decode
    \/ Encode

CodecSpec == CodecInit /\ [][CodecNext]_vars

(***************************************************************************)
(* Properties                                                              *)
(***************************************************************************)
\* Bootstrap has returned and bootstrapped has not touched the disk since
Returned == pc = "returned"

IsCACerts(i) == i <= Len(reqs) /\ reqs[i].path = "/cacerts"

IsFetch(i) == i <= Len(reqs) /\ reqs[i].path = "/v1-k3s/server-bootstrap"

NoFetchRun ==
    /\ hist.fetches = 0
    /\ hist.loads = 0
    /\ pc \notin {"fetch", "storage"}
    /\ \A i \in 1..Len(reqs) : ~IsFetch(i)

ServiceUnavailable == ErrorsIs(hist.verr, ErrServiceUnavailable)

DeclaredHash == parseToken(config.Token).info.caHash

HashMismatch(declared, computed) ==
    Errorf("token CA hash does not match the server CA hash", <<declared, computed>>)

\* C1 as stated: while the stamp of the configured raw token exists, Bootstrap
\* makes no request at all, in any configuration.
C1_StampMeansNoRequest ==
    (pc # "marked" /\ StatOK(bootstrapStamp)) => reqs = <<>>

\* C1 as amended: while the stamp of the configured raw token exists, Bootstrap
\* runs neither the bootstrap-data request nor the storage load, and it makes
\* no request at all when no driver is assigned or no join URL is set; with a
\* driver and a join URL the only requests are the /cacerts requests of the
\* token validation, which precedes the stamp check.
C1_StampSkipsFetch ==
    (pc # "marked" /\ StatOK(bootstrapStamp)) =>
        /\ NoFetchRun
        /\ \A i \in 1..Len(reqs) : IsCACerts(i)
        /\ (managedDB = NoDriver \/ config.JoinURL = "") => reqs = <<>>

C1_Witness ==
    /\ Returned
    /\ StatOK(bootstrapStamp)
    /\ managedDB # NoDriver
    /\ config.JoinURL # ""
    /\ hist.validated
    /\ hist.stats = 1
    /\ Len(reqs) = 3
    /\ ret = NoErr

\* C2: quorum-loss bypass.  With a driver assigned and a join URL set, when the
\* token validation failed with service unavailable and IsInitialized returned
\* true without error, Bootstrap returns nil, has run neither fetch path, has
\* not stat'ed the stamp, and leaves joining false and clientAccessInfo nil.
C2_Bypass ==
    (Returned /\ managedDB # NoDriver /\ config.JoinURL # ""
        /\ ServiceUnavailable /\ hist.isInit = "true") =>
        /\ ret = NoErr
        /\ NoFetchRun
        /\ hist.stats = 0
        /\ ~joining
        /\ ~shouldBootstrap
        /\ clientAccessInfo = NilInfo

C2_Witness ==
    /\ Returned
    /\ ServiceUnavailable
    /\ hist.isInit = "true"
    /\ ret = NoErr
    /\ ~StatOK(bootstrapStamp)
    /\ config.Token # <<>>

\* C3: a failed token validation ends in success only when the error is service
\* unavailable and IsInitialized returned true without error; in every other
\* case Bootstrap returns the validation error itself; no fetch runs either way.
C3_OnlyInitializedBypass ==
    (Returned /\ hist.verr # NoErr) =>
        /\ (ret = NoErr) <=> (ServiceUnavailable /\ hist.isInit = "true")
        /\ ret # NoErr => ret = hist.verr
        /\ ~ServiceUnavailable => hist.isInit = "none"
        /\ NoFetchRun

C3_Witness ==
    /\ Returned
    /\ ServiceUnavailable
    /\ hist.isInit = "false"
    /\ ret = hist.verr
    /\ ret # NoErr

\* C4 as stated: after any failure of the third /cacerts request, a 503
\* included, Bootstrap does not return success.
C4_Phase3FailureFatal ==
    (Returned /\ IsCACerts(3) /\ reqs[3].status # "200") => ret # NoErr

\* C4 as amended: a failure of the third /cacerts request is fatal, with the
\* error "CA cert validation failed", unless the failure is a 503 response:
\* that one is the service-unavailable condition like a 503 of the second
\* request, and Bootstrap returns success through the bypass exactly when
\* IsInitialized then returns true without error.  No fetch runs either way.
C4_Phase3FailureFatalBut503 ==
    (Returned /\ IsCACerts(3) /\ reqs[3].status # "200") =>
        /\ hist.verr # NoErr
        /\ hist.verr[1].text = "CA cert validation failed"
        /\ ServiceUnavailable <=> (reqs[3].status = "503")
        /\ (ret = NoErr) <=> (reqs[3].status = "503" /\ hist.isInit = "true")
        /\ ret # NoErr => ret = hist.verr
        /\ NoFetchRun

C4_Witness ==
    /\ Returned
    /\ IsCACerts(3)
    /\ reqs[3].status = "503"
    /\ hist.isInit = "true"
    /\ ret = NoErr

\* the bundle has come back from getCACerts into setServer
BundleReturned == info.BaseURL # ""

\* C5 as stated: the third /cacerts request is always made with a client whose
\* only roots are the bundle of the second one, never with the default client,
\* and a non-empty bundle is returned only after that request succeeded.
C5_Phase3TrustsOnlyBundle ==
    /\ IsCACerts(3) => reqs[3].client.kind = "pool"
    /\ (BundleReturned /\ info.CACerts # <<>>) =>
          (IsCACerts(3) /\ reqs[3].status = "200")

\* C5 as amended: a non-empty bundle is returned only after the third request,
\* made with a client whose only roots are the certificates of that bundle,
\* got 200 from the peer that served the bundle; when the second request
\* brought no bytes the third is made with the default client and the bundle
\* returned on success is empty.
C5_NonEmptyBundleSelfValidated ==
    /\ (BundleReturned /\ info.CACerts # <<>>) =>
          /\ IsCACerts(3)
          /\ reqs[3].status = "200"
          /\ reqs[3].client = [kind |-> "pool", roots |-> AppendCertsFromPEM(info.CACerts)]
          /\ peer.signer \in AppendCertsFromPEM(info.CACerts)
          /\ reqs[2].status = "200"
          /\ info.CACerts = peer.cacerts
    /\ (IsCACerts(3) /\ reqs[3].client.kind # "pool") =>
          /\ reqs[3].client = DefaultClient
          /\ cacerts = <<>>
          /\ BundleReturned => info.CACerts = <<>>

C5_Witness ==
    /\ BundleReturned
    /\ IsCACerts(3)
    /\ reqs[3].client = DefaultClient
    /\ reqs[3].status = "200"
    /\ hist.validated

\* C6: the /cacerts requests come in order.  The first uses the default client;
\* the second, with the insecure client, only follows a failed first; the
\* third only follows a second that got 200; there is no fourth.  After a
\* successful first no other /cacerts request is made and the bundle returned
\* is empty; a failed second ends the call with an error and no third; a
\* bundle returned after a failed first is the body of the second.
C6_PhasesInOrder ==
    /\ \A i \in 1..Len(reqs) : IsCACerts(i) => i <= 3
    /\ Len(reqs) >= 1 => (IsCACerts(1) /\ reqs[1].client = DefaultClient)
    /\ IsCACerts(2) => (reqs[1].status # "200" /\ reqs[2].client = insecureClient)
    /\ IsCACerts(3) => (IsCACerts(2) /\ reqs[2].status = "200")
    /\ (Len(reqs) >= 1 /\ reqs[1].status = "200") =>
          (~IsCACerts(2) /\ BundleReturned /\ info.CACerts = <<>>)
    /\ (IsCACerts(2) /\ reqs[2].status # "200") =>
          /\ Len(reqs) = 2
          /\ Returned
          /\ hist.verr # NoErr
          /\ hist.verr[1].text = "failed to get CA certs"
          /\ ~BundleReturned
    /\ (BundleReturned /\ reqs[1].status # "200") =>
          /\ IsCACerts(3)
          /\ reqs[3].status = "200"
          /\ info.CACerts = cacerts
          /\ info.CACerts = peer.cacerts

C6_Witness ==
    /\ BundleReturned
    /\ IsCACerts(3)
    /\ info.CACerts = <<1>>
    /\ hist.validated

\* C7: with a CA hash declared in the token, the validation succeeds only if
\* the hash of the returned bundle is the declared one, the empty bundle of a
\* successful first request included; on a mismatch Bootstrap returns the
\* error that carries the declared and the computed hash, and no fetch runs.
C7_DeclaredHashChecked ==
    /\ (hist.validated /\ DeclaredHash # <<>>) =>
          hashCA(clientAccessInfo.CACerts) = DeclaredHash
    /\ (BundleReturned /\ DeclaredHash # <<>> /\ hashCA(info.CACerts) # DeclaredHash) =>
          /\ Returned
          /\ ~hist.validated
          /\ clientAccessInfo = NilInfo
          /\ ret = HashMismatch(DeclaredHash, hashCA(info.CACerts))
          /\ NoFetchRun

C7_Witness ==
    /\ Returned
    /\ Len(reqs) = 1
    /\ reqs[1].status = "200"
    /\ DeclaredHash = hashCA(<<1>>)
    /\ ret = HashMismatch(hashCA(<<1>>), hashCA(<<>>))

\* C8: with a driver assigned, as long as no Test has succeeded the channel is
\* not closed and the receiver has not been released, cancellation or not.
C8_NoSignalWithoutSuccess ==
    (managedDB # NoDriver /\ probes.ok = 0) => (~result.closed /\ consumer = "waiting")

\* C9: the signal is single-fire.  Without a driver the channel is closed by
\* the call itself and Test is never called; with a driver a successful Test
\* closes it and is the last Test; the channel is never closed twice, and once
\* it is closed the poller has stopped for good.
C9_SingleFire ==
    /\ [](/\ result.closes <= 1
          /\ result.closed <=> (result.closes = 1)
          /\ result.closed => pollPC = "done"
          /\ (managedDB = NoDriver /\ pollPC # "idle") => (result.closed /\ probes.calls = 0)
          /\ probes.ok <= 1
          /\ probes.ok = 1 => result.closed)
    /\ [][result.closed => (probes' = probes /\ result' = result /\ pollPC' = pollPC)]_vars

C9_Witness ==
    /\ managedDB # NoDriver
    /\ result.closed
    /\ probes.ok = 1
    /\ probes.calls >= 2
    /\ consumer = "ready"

\* C10: with a driver assigned the first Test is called before any timer
\* expiry; the goroutine ends only on a successful Test or a cancellation;
\* a successful Test closes the channel; and after each failed Test the
\* goroutine calls Test again unless the context is cancelled.
C10_PollerRetries ==
    /\ [](/\ probes.calls = 0 => ticks = 0
          /\ ticks <= probes.calls
          /\ (pollPC = "done" /\ managedDB # NoDriver) => (probes.ok >= 1 \/ ctxDone)
          /\ probes.ok >= 1 => result.closed)
    /\ (pollPC = "select") ~> (pollPC = "test" \/ ctxDone)

C10_Witness ==
    /\ managedDB # NoDriver
    /\ ~ctxDone
    /\ probes.calls >= 2
    /\ ticks >= 2
    /\ probes.ok = 1
    /\ result.closed

\* the position of a driver in Registered
Position(d) == CHOOSE i \in 1..Len(Registered) : Registered[i] = d

\* the pieces of the endpoint before its first ":"
SchemePrefix(e) ==
    LET colons == {i \in 1..Len(e) : e[i] = ":"}
    IN  IF colons = {} THEN e
        ELSE SubSeq(e, 1, (CHOOSE i \in colons : \A j \in colons : i <= j) - 1)

InitializedDrivers == {d \in DriverSet : initialized[d]}

\* Bootstrap returned the error of an IsInitialized call of assignManagedDriver
AssignFailed == ret # NoErr /\ ret[1].text = "IsInitialized failed"

\* C11: the driver assigned is the first match in priority order: the first
\* registered driver with a database on disk; else the registered driver named
\* by the piece of the endpoint before ":"; else the default driver, provided
\* the endpoint is empty and cluster-init or both token and join URL are set;
\* else none.  An IsInitialized error ends the call with no driver assigned,
\* which happens only when no driver registered before the failing one is
\* initialized.
C11_SelectionPolicy ==
    pc # "start" =>
        /\ managedDB \in DriverSet \cup {NoDriver}
        /\ AssignFailed =>
              /\ managedDB = NoDriver
              /\ \A d \in InitializedDrivers : Position(ret[1].args[1]) <= Position(d)
        /\ (~AssignFailed /\ InitializedDrivers # {}) =>
              /\ managedDB \in InitializedDrivers
              /\ \A d \in InitializedDrivers : Position(managedDB) <= Position(d)
        /\ (~AssignFailed /\ InitializedDrivers = {}
               /\ SchemePrefix(config.Endpoint) \in DriverSet) =>
              managedDB = SchemePrefix(config.Endpoint)
        /\ (~AssignFailed /\ InitializedDrivers = {}
               /\ SchemePrefix(config.Endpoint) \notin DriverSet) =>
              managedDB = IF /\ config.Endpoint = <<>>
                             /\ \/ config.ClusterInit
                                \/ (config.Token # <<>> /\ config.JoinURL # "")
                          THEN Default
                          ELSE NoDriver

C11_Witness ==
    /\ pc # "start"
    /\ InitializedDrivers = {<<"etcd">>}
    /\ SchemePrefix(config.Endpoint) = <<"dqlite">>
    /\ managedDB = <<"etcd">>

\* a caller of bootstrapped has returned
MarkDone(p) == mark[p].pc = "done"

\* C12: bootstrapped is idempotent: a call made after another call returned
\* without error returns without error and leaves the disk as it found it;
\* a stamp that is there when the call begins means no error, and a directory
\* that is there means MkdirAll does not fail
C12_Idempotent ==
    \A p \in Callers :
        /\ mark[p].after => (mark[p].err = NoErr /\ fs = mark[p].fs0)
        /\ bootstrapStamp \in mark[p].fs0.stamps => mark[p].err = NoErr
        /\ mark[p].fs0.dbDir => mark[p].via # "mkdir"

C12_Witness ==
    \E p \in Callers : mark[p].after /\ MarkDone(p) /\ mark[p].via = "stat"

\* the stamp check of this Bootstrap call is over
Decided == pc \in {"fetch", "storage", "returned"}

FetchAttempted == pc \in {"fetch", "storage"} \/ hist.fetches > 0 \/ hist.loads > 0

MissingToken == ret # NoErr /\ ret[1].text = "K3S_TOKEN is required to join a cluster"

\* the stamp of the token exactly as configured
RawStamp == keyHash(config.Token)

\* the driver selection did not fail and the token validation succeeded, or no
\* driver is assigned
StampCheckDue == ~AssignFailed /\ (hist.validated \/ managedDB = NoDriver)

StampSkips ==
    (RawStamp \in fs.stamps) => (Returned /\ ret = NoErr /\ NoFetchRun /\ ~joining)

\* C13 as stated: after a successful validation, or with no driver assigned, an
\* existing stamp of the raw token makes Bootstrap return success without a
\* fetch and with joining false, and an absent one always leads to the fetch.
C13_AbsentStampFetches ==
    (Decided /\ StampCheckDue) =>
        /\ StampSkips
        /\ (RawStamp \notin fs.stamps) => FetchAttempted

\* C13 as amended: after a successful validation, or with no driver assigned, an
\* existing stamp of the raw token makes Bootstrap return success without a
\* fetch and with joining false; an absent one leads to the fetch, except that
\* with a driver assigned and an empty token Bootstrap returns the
\* missing-token error without fetching.
C13_StampDecides ==
    (Decided /\ StampCheckDue) =>
        /\ StampSkips
        /\ (RawStamp \notin fs.stamps) =>
              IF managedDB # NoDriver /\ config.Token = <<>>
              THEN Returned /\ MissingToken /\ NoFetchRun
              ELSE FetchAttempted

C13_Witness ==
    /\ hist.validated
    /\ keyHash(PriorToken) \in fs.stamps
    /\ RawStamp \notin fs.stamps
    /\ config.Token # <<>>
    /\ pc = "fetch"

FetchRan == hist.fetches > 0 \/ hist.loads > 0

\* C14 as stated: when Bootstrap returns success after a fetch, the stamp of
\* the raw token is on disk.
C14_StampAtReturn ==
    (Returned /\ ret = NoErr /\ FetchRan) => StatOK(bootstrapStamp)

\* C14 as amended: Bootstrap does not write the stamp. When it returns success
\* after a fetch the stamp is still absent and c.shouldBootstrap is set; the
\* stamp is on disk once the caller's bootstrapped() has returned without
\* error, and a run of the process that follows one which recorded its
\* bootstrap, with the same token and data directory, does not fetch.
C14_StampWrittenByCaller ==
    /\ (Returned /\ ret = NoErr /\ FetchRan) => (shouldBootstrap /\ ~StatOK(bootstrapStamp))
    /\ (pc = "marked" /\ ret = NoErr) => StatOK(bootstrapStamp)
    /\ life.recorded => (StatOK(bootstrapStamp) /\ NoFetchRun)

C14_Witness ==
    /\ life.recorded
    /\ Returned
    /\ ret = NoErr
    /\ hist.validated
    /\ hist.stats = 1

\* C15: with a driver assigned, a join URL and an empty token, Bootstrap never
\* returns success: it returns the missing-token error.
C15_MissingTokenFatal ==
    (Returned /\ managedDB # NoDriver /\ config.JoinURL # "" /\ config.Token = <<>>) =>
        MissingToken

\* C16: founder path: with a driver assigned and no join URL, Bootstrap returns
\* success with HTTPBootstrap set, the token neither decoded nor validated, no
\* request made, the stamp not looked at, no fetch run, joining false,
\* shouldBootstrap false and the access info unresolved.
C16_FounderPath ==
    (pc # "start" /\ managedDB # NoDriver /\ config.JoinURL = "") =>
        /\ Returned
        /\ ret = NoErr
        /\ HTTPBootstrap
        /\ ~hist.parsed
        /\ ~hist.validated
        /\ reqs = <<>>
        /\ hist.stats = 0
        /\ NoFetchRun
        /\ ~joining
        /\ ~shouldBootstrap
        /\ clientAccessInfo = NilInfo

C16_Witness ==
    /\ Returned
    /\ managedDB # NoDriver
    /\ config.JoinURL = ""
    /\ parseToken(config.Token).err # NoErr
    /\ ~StatOK(bootstrapStamp)
    /\ ret = NoErr

\* parseToken has been applied to a string that did not come from Info.String
DecodedString == codec.pc = "decoded" /\ codec.info.nil

Tagged(str) ==
    /\ Len(str) >= 3
    /\ str[1] = "K"
    /\ str[2] = "1"
    /\ str[3] = "0"

\* C17: a string that does not start with K10 (the empty string and strings
\* with ":" or "::" included) decodes without error to an empty CA hash, an
\* empty username and the whole string as password.
C17_UntaggedOpaque ==
    (DecodedString /\ ~Tagged(codec.raw)) =>
        /\ codec.out.err = NoErr
        /\ ~codec.out.info.nil
        /\ codec.out.info.caHash = <<>>
        /\ codec.out.info.Username = <<>>
        /\ codec.out.info.Password = codec.raw

C17_Witness ==
    /\ DecodedString
    /\ codec.raw = <<"K", "1", "a", ":", ":", "b">>
    /\ codec.out.info.Password = codec.raw

\* what follows the tag
Remainder(str) == SubSeq(str, 4, Len(str))

\* where str has "::"
DoubleColons(str) == {i \in 1..(Len(str) - 1) : str[i] = ":" /\ str[i + 1] = ":"}

Colons(str) == {i \in 1..Len(str) : str[i] = ":"}

Least(S) == CHOOSE i \in S : \A j \in S : i <= j

HashPart(str) ==
    IF DoubleColons(str) = {} THEN <<>>
    ELSE SubSeq(str, 1, Least(DoubleColons(str)) - 1)

RestPart(str) ==
    IF DoubleColons(str) = {} THEN str
    ELSE SubSeq(str, Least(DoubleColons(str)) + 2, Len(str))

\* C18: a string that starts with K10 is decoded in two stages: what follows
\* the tag is cut at its first "::" into CA hash and rest (no "::": empty hash,
\* everything is rest); rest is cut at its first ":" into username and
\* password, the password keeping every later ":"; the decoding fails, with
\* the format error, exactly when rest has no ":".
C18_TwoStageSplit ==
    (DecodedString /\ Tagged(codec.raw)) =>
        LET rest == RestPart(Remainder(codec.raw))
        IN  IF Colons(rest) = {}
            THEN /\ codec.out.err = Errorf("invalid token format", <<>>)
                 /\ codec.out.info.nil
            ELSE /\ codec.out.err = NoErr
                 /\ ~codec.out.info.nil
                 /\ codec.out.info.caHash = HashPart(Remainder(codec.raw))
                 /\ codec.out.info.Username = SubSeq(rest, 1, Least(Colons(rest)) - 1)
                 /\ codec.out.info.Password = SubSeq(rest, Least(Colons(rest)) + 1, Len(rest))

C18_Witness ==
    /\ DecodedString
    /\ codec.raw = <<"K", "1", "0", ":", ":", ":", "a">>
    /\ codec.out.info.Username = <<>>
    /\ codec.out.info.Password = <<"a">>

\* an Info has been written by Info.String and the string read by parseToken
RoundTrip == codec.pc = "decoded" /\ ~codec.info.nil

\* the Infos the round trip is claimed for
Encodable(i) == i.Username # <<>> /\ i.Password # <<>> /\ Colons(i.Username) = {}

\* what the encoded string has between the tag and its first "::"
HashSegment == HashPart(Remainder(codec.encoded))

\* C19 as stated: for an Info with non-empty username and password and no ":"
\* in the username, decoding the encoded Info succeeds and gives back its
\* username, password and CA hash, and an empty CA hash is encoded as an empty
\* hash segment.
C19_RoundTripWithHash ==
    (RoundTrip /\ Encodable(codec.info)) =>
        /\ codec.out.err = NoErr
        /\ codec.out.info.Username = codec.info.Username
        /\ codec.out.info.Password = codec.info.Password
        /\ codec.out.info.caHash = codec.info.caHash
        /\ codec.info.caHash = <<>> => HashSegment = <<>>

\* C19 as amended: for an Info with non-empty username and password and no ":"
\* in the username, decoding the encoded Info succeeds and gives back its
\* username and password; the hash segment of the encoded string, and so the
\* decoded CA hash, is the hash of the Info's CA bundle, never empty, whatever
\* the Info's own CA hash is.
C19_RoundTrip ==
    (RoundTrip /\ Encodable(codec.info)) =>
        /\ codec.out.err = NoErr
        /\ codec.out.info.Username = codec.info.Username
        /\ codec.out.info.Password = codec.info.Password
        /\ HashSegment = hashCA(codec.info.CACerts)
        /\ HashSegment # <<>>
        /\ codec.out.info.caHash = hashCA(codec.info.CACerts)

C19_Witness ==
    /\ RoundTrip
    /\ Encodable(codec.info)
    /\ codec.info.caHash = <<>>
    /\ codec.info.CACerts = <<1>>
    /\ Colons(codec.info.Password) # {}
    /\ codec.out.info.Password = codec.info.Password

\* C20: two processes run bootstrapped on the same data directory and token,
\* their file-system calls interleaved in any order: a call returns an error
\* only when the operating system refused to make the directory or the file,
\* never because either exists already; a call that returned no error leaves
\* the stamp on disk, and so do two calls none of which was refused.
C20_ConcurrentCreate ==
    /\ \A p \in Callers :
          /\ mark[p].err # NoErr => mark[p].ioFailed
          /\ (MarkDone(p) /\ mark[p].err = NoErr) => (fs.dbDir /\ StatOK(bootstrapStamp))
    /\ (\A p \in Callers : MarkDone(p) /\ ~mark[p].ioFailed) => StatOK(bootstrapStamp)

C20_Witness ==
    \A p \in Callers :
        /\ MarkDone(p)
        /\ mark[p].via = "create"
        /\ mark[p].err = NoErr
        /\ ~mark[p].fs0.dbDir
        /\ ~mark[p].after

DriverAssigned == managedDB # NoDriver

\* C21: transport choice: HTTPBootstrap is set exactly when a driver is
\* assigned; the bootstrap-data request is made only with a driver assigned and
\* the storage load only with none; a Bootstrap call runs at most one of the
\* two, and exactly one once it has decided to fetch and has returned.
C21_TransportChoice ==
    /\ pc # "start" => (HTTPBootstrap <=> DriverAssigned)
    /\ (pc = "fetch" \/ hist.fetches > 0) => DriverAssigned
    /\ (pc = "storage" \/ hist.loads > 0) => ~DriverAssigned
    /\ hist.fetches + hist.loads <= 1
    /\ pc = "fetch" => (hist.fetches = 0 /\ shouldBootstrap)
    /\ pc = "storage" => (hist.loads = 0 /\ shouldBootstrap)
    /\ (shouldBootstrap /\ pc \in {"returned", "marked"}) =>
          /\ hist.fetches + hist.loads = 1
          /\ hist.fetches = 1 <=> DriverAssigned
    /\ (~shouldBootstrap /\ pc \in {"returned", "marked"}) => hist.fetches + hist.loads = 0

C21_Witness ==
    /\ Returned
    /\ ~DriverAssigned
    /\ config.JoinURL # ""
    /\ config.Token # <<>>
    /\ shouldBootstrap
    /\ hist.loads = 1
    /\ hist.fetches = 0
    /\ ret = NoErr

\* the password the configured token decodes to
TokenPassword == parseToken(config.Token).info.Password

\* C22: fixed role identity: once the token validation has succeeded, the
\* username of the access info is "server", whatever username the token
\* carries, and its password is the password the token decodes to; every
\* bootstrap-data request authenticates with that pair.
C22_ServerIdentity ==
    /\ hist.validated =>
          /\ ~clientAccessInfo.nil
          /\ clientAccessInfo.Username = ServerUser
          /\ clientAccessInfo.Password = TokenPassword
    /\ \A i \in 1..Len(reqs) : IsFetch(i) => reqs[i].auth = <<ServerUser, TokenPassword>>

C22_Witness ==
    /\ Returned
    /\ ret = NoErr
    /\ config.Token = <<"K", "1", "0", ":", ":", "u", ":", "p">>
    /\ hist.fetches = 1
    /\ reqs[Len(reqs)].auth = <<ServerUser, <<"p">> >>
    /\ reqs[Len(reqs)].status = "200"

\* the bootstrap-data request is about to be made or has been made
FetchIssued == pc = "fetch" \/ hist.fetches > 0 \/ \E i \in 1..Len(reqs) : IsFetch(i)

NilDereference == ret # NoErr /\ ret[1].text = "nil pointer dereference"

\* C23: the bootstrap-data request is made only after the token validation of
\* the same Bootstrap call has succeeded, with the access info set: base URL,
\* CA bundle as obtained from the peer, username and password; where the
\* validation was skipped, failed or bypassed, no such request is made, and
\* httpBootstrap never meets a nil access info.
C23_FetchHasAccessInfo ==
    /\ FetchIssued =>
          /\ hist.validated
          /\ hist.verr = NoErr
          /\ hist.isInit = "none"
          /\ ~clientAccessInfo.nil
          /\ clientAccessInfo = info
          /\ clientAccessInfo.BaseURL = url_String(url)
          /\ clientAccessInfo.BaseURL # ""
          /\ clientAccessInfo.Username # <<>>
          /\ clientAccessInfo.Password = TokenPassword
          /\ clientAccessInfo.CACerts \in {<<>>, peer.cacerts}
    /\ (~hist.validated \/ hist.verr # NoErr \/ hist.isInit # "none") => ~FetchIssued
    /\ ~NilDereference

C23_Witness ==
    /\ pc = "fetch"
    /\ hist.validated
    /\ Len(reqs) = 3
    /\ clientAccessInfo.CACerts = <<1>>
    /\ clientAccessInfo.BaseURL = "https://peer"

====
